---- MODULE Spec2Model ----
(***************************************************************************)
(* A model of the bulk-backfill pipeline of usaspending_pipeline.py:       *)
(* the job runner (_run_bulk_job_or_raise), the auto-splitting driver      *)
(* (bulk_backfill_awards and its inner _attempt) and the date helpers      *)
(* (_days_between, _split_range); then the parts the pipeline stands on:   *)
(* the downloader (_download_file), the rate limiter and the HTTP wrapper  *)
(* (RateLimiter, USAClient._request), and the incremental search           *)
(* (shard_iter, drain_spending_by_award).                                  *)
(*                                                                         *)
(* Text is modelled as a sequence of one-character strings, so that        *)
(* str.lower() and the substring test are computed, and a date string      *)
(* "YYYY-MM-DD" as the triple <<year, month, day>>, so that strptime and   *)
(* strftime are computed through the calendar.                             *)
(***************************************************************************)
EXTENDS Integers, Sequences, FiniteSets, TLC

VARIABLES
    cfg,        \* the arguments of bulk_backfill_awards
    backend,    \* which replies the remote API may give in this run
    pc,         \* where the single thread of control stands
    gi,         \* index of the group the for-loop is at
    stack,      \* the activation records of _attempt, outermost first
    job,        \* locals of the running _run_bulk_job_or_raise
    stat,       \* the status payload of the latest poll of that job
    hist,       \* per poll of that job: did the message hold "exception"
    error,      \* the exception in flight or raised to the caller
    log,        \* every job submitted so far, in order, with its outcome
    extracted,  \* the extraction directories written so far
    arg,        \* input of the pure function under test (function specs)
    ret,        \* its result
    now,        \* the clock, time.time(), in ticks
    limiter,    \* the fields of the RateLimiter of the USAClient
    locals,     \* the local variables of the helper that is running
    wire,       \* every HTTP request sent so far, in order
    sent,       \* when the latest request went out, and whether wait() returned since
    dest        \* the content of the destination file of _download_file

\* the state of bulk_backfill_awards
drv == <<cfg, gi, stack, job, stat, hist, log, extracted>>

\* the state of the helpers below the job runner
aux == <<now, limiter, locals, wire, sent, dest>>

vars == <<cfg, backend, pc, gi, stack, job, stat, hist, error, log, extracted, arg, ret,
          now, limiter, locals, wire, sent, dest>>

----------------------------------------------------------------------------
(* Bounds of the model *)

\* polls of one job the model follows
MaxPolls == 5
\* longest requested range, in days, besides the documented scenario
MaxDays == 5
\* largest min_split_days besides the default
MaxMinSplit == 2
\* the function specifications draw dates from windows of this many days
DateSpan == 11
\* nested calls of _attempt the interpreter allows (sys.getrecursionlimit(), scaled)
RecursionLimit == 6

----------------------------------------------------------------------------
(* Text: str.lower() and the `in` substring test *)

UpperAlpha == <<"A","B","C","D","E","F","G","H","I","J","K","L","M",
                "N","O","P","Q","R","S","T","U","V","W","X","Y","Z">>
LowerAlpha == <<"a","b","c","d","e","f","g","h","i","j","k","l","m",
                "n","o","p","q","r","s","t","u","v","w","x","y","z">>

LowerChar(c) ==
    IF \E i \in 1..26 : UpperAlpha[i] = c
    THEN LowerAlpha[CHOOSE i \in 1..26 : UpperAlpha[i] = c]
    ELSE c

lower(s) == [i \in 1..Len(s) |-> LowerChar(s[i])]

Contains(sub, s) ==
    \E i \in 0..(Len(s) - Len(sub)) : SubSeq(s, i + 1, i + Len(sub)) = sub

EXCEPTION == <<"e","x","c","e","p","t","i","o","n">>

Whitespace == {" ", "\t", "\n", "\r"}

\* str.strip()
RECURSIVE lstrip(_)
lstrip(s) == IF s # <<>> /\ Head(s) \in Whitespace THEN lstrip(Tail(s)) ELSE s

RECURSIVE rstrip(_)
rstrip(s) ==
    IF s # <<>> /\ s[Len(s)] \in Whitespace THEN rstrip(SubSeq(s, 1, Len(s) - 1)) ELSE s

strip(s) == rstrip(lstrip(s))

\* line 367-368: msg.strip().splitlines()[0] of a message that is not empty but
\* blank indexes an empty list, which raises IndexError
FirstLineFails(msg) == msg # <<>> /\ strip(msg) = <<>>

\* status strings the code tests for, lines 379 and 408
FINISHED_SET == { <<"f","i","n","i","s","h","e","d">>, <<"r","e","a","d","y">>,
                  <<"s","u","c","c","e","s","s">> }
FAILED_SET == { <<"f","a","i","l","e","d">>, <<"e","r","r","o","r">> }

----------------------------------------------------------------------------
(* Dates: strptime("%Y-%m-%d") to a day number, strftime back *)

\* days since 1970-01-01 of the proleptic Gregorian date <<y, m, d>>
strptime(date) ==
    LET y   == IF date[2] <= 2 THEN date[1] - 1 ELSE date[1]
        era == y \div 400
        yoe == y - era * 400
        mp  == IF date[2] > 2 THEN date[2] - 3 ELSE date[2] + 9
        doy == (153 * mp + 2) \div 5 + date[3] - 1
        doe == yoe * 365 + yoe \div 4 - yoe \div 100 + doy
    IN  era * 146097 + doe - 719468

\* the date <<y, m, d>> of a day number
civil(n) ==
    LET z   == n + 719468
        era == z \div 146097
        doe == z - era * 146097
        yoe == (doe - doe \div 1460 + doe \div 36524 - doe \div 146096) \div 365
        doy == doe - (365 * yoe + yoe \div 4 - yoe \div 100)
        mp  == (5 * doy + 2) \div 153
        d   == doy - (153 * mp + 2) \div 5 + 1
        m   == IF mp < 10 THEN mp + 3 ELSE mp - 9
        y   == yoe + era * 400
    IN  << IF m <= 2 THEN y + 1 ELSE y, m, d >>

\* civil over the years the model's dates lie in, computed once
Calendar == [n \in 19600..20100 |-> civil(n)]

strftime(n) == IF n \in DOMAIN Calendar THEN Calendar[n] ELSE civil(n)

_days_between(start_date, end_date) ==
    (strptime(end_date) - strptime(start_date)) + 1

\* the midpoint of _split_range, line 341
SplitMid_ceil(s, e) == s + ((e - s + 1) \div 2)
SplitMid(s, e) == s + ((e - s) \div 2)

\* a second half that starts a day late
_split_range_gap(start_date, end_date) ==
    LET s   == strptime(start_date)
        e   == strptime(end_date)
        mid == SplitMid(s, e)
    IN  << <<strftime(s), strftime(mid)>>, <<strftime(mid + 2), strftime(e)>> >>

_split_range(start_date, end_date) ==
    LET s   == strptime(start_date)
        e   == strptime(end_date)
        mid == SplitMid(s, e)
    IN  << <<strftime(s), strftime(mid)>>, <<strftime(mid + 1), strftime(e)>> >>

----------------------------------------------------------------------------
(* Configuration *)

AWARD_TYPE_GROUPS ==
    {"contracts", "loans", "idvs", "grants", "other_fin_ast", "direct_payments"}

\* the default of min_split_days
DefaultMinSplitDays == 7

GroupLists == { <<"contracts">>, <<>>, <<"widgets", "grants">> }

StartDates == { <<2024, 2, 27>> }

PlusDays(date, n) == strftime(strptime(date) + n)

Configs ==
    { [start_date |-> s, end_date |-> PlusDays(s, d - 1),
       min_split_days |-> m, award_types |-> g] :
        s \in StartDates, d \in 1..MaxDays, m \in 1..MaxMinSplit, g \in GroupLists }

\* the documented end-to-end scenario
ScenarioConfig ==
    [start_date |-> <<2024, 9, 1>>, end_date |-> <<2024, 9, 30>>,
     min_split_days |-> DefaultMinSplitDays, award_types |-> <<"contracts">>]

\* one-group requests of at most two days, for runs against the talkative backend
SmallConfigs ==
    { c \in Configs : /\ c.award_types = <<"contracts">>
                      /\ _days_between(c.start_date, c.end_date) <= 2
                      /\ c.min_split_days = 1 }

----------------------------------------------------------------------------
(* The remote API: what it may answer *)

S_running  == <<"r","u","n","n","i","n","g">>
S_finished == <<"f","i","n","i","s","h","e","d">>
S_Finished == <<"F","i","n","i","s","h","e","d">>
S_READY    == <<"R","E","A","D","Y">>
S_success  == <<"s","u","c","c","e","s","s">>
S_failed   == <<"f","a","i","l","e","d">>
S_FAILED   == <<"F","A","I","L","E","D">>
S_Error    == <<"E","r","r","o","r">>
M_none     == <<>>
M_queued   == <<"q","u","e","u","e","d">>
M_blank    == <<" ">>
M_exc      == <<"r","u","n","n","i","n","g","(","e","x","c","e","p","t","i","o","n",")">>
M_EXC      == <<"J","o","b"," ","E","x","c","e","p","t","i","o","n">>

Stat(st, m, u) == [status |-> st, message |-> m, file_url |-> u]

MockMessages == {M_none, M_queued, M_blank, M_exc, M_EXC}

\* the talkative backend sends a file_url only with a finished status
MockReplies ==
    { Stat(st, m, u) :
        st \in {S_running, S_Finished, S_READY, S_success, S_FAILED, S_Error},
        m \in MockMessages,
        u \in BOOLEAN } \ { Stat(st, m, TRUE) : st \in {S_running, S_FAILED, S_Error},
                                               m \in MockMessages }

FlakyReplies ==
    { Stat(S_running, M_none, FALSE), Stat(S_finished, M_none, TRUE),
      Stat(S_failed, M_none, FALSE) }

FailingReplies ==
    { Stat(S_failed, M_none, FALSE), Stat(S_Error, M_EXC, FALSE),
      Stat(S_running, M_exc, FALSE) }

StatusReplies(b) ==
    CASE b = "mock"    -> MockReplies
      [] b = "flaky"   -> FlakyReplies
      [] b = "failing" -> FailingReplies

\* the submission response: has it a file_name, has it a file_url
SubmitReplies(b) ==
    CASE b = "mock"    -> [file_name : BOOLEAN, file_url : BOOLEAN]
      [] b = "flaky"   -> [file_name : {TRUE}, file_url : {FALSE}]
      [] b = "failing" -> [file_name : BOOLEAN, file_url : {FALSE}]

\* may a request end in httpx.HTTPError once the wrapper's retries are spent
MayHTTPError(b) == b \in {"mock", "flaky"}

\* how _download_file and unzip_to may end
DownloadOutcomes(b) ==
    CASE b = "mock"    -> {"ok", "Unavailable", "BadZipFile"}
      [] b = "flaky"   -> {"ok", "BadZipFile"}
      [] b = "failing" -> {}

----------------------------------------------------------------------------
(* State *)

NoStat == [status |-> <<>>, message |-> <<>>, file_url |-> FALSE]

NoJob == [state |-> "NONE", file_name |-> FALSE, file_url |-> FALSE,
          consecutive_exception_msgs |-> 0]

\* the exceptions _attempt catches: all are raised as RuntimeError
RuntimeErrors == {"NoFileName", "BackendException", "NoFileUrl", "JobFailed", "Unavailable"}

Exc(type, what, payload) == [type |-> type, what |-> what, payload |-> payload]

NoError == Exc("None", "None", NoStat)

\* the list taken from its far end
Groups_reversed ==
    IF cfg.award_types = <<>> THEN <<"contracts">>
    ELSE [i \in 1..Len(cfg.award_types) |-> cfg.award_types[Len(cfg.award_types) + 1 - i]]

Groups == IF cfg.award_types = <<>> THEN <<"contracts">> ELSE cfg.award_types

Top == stack[Len(stack)]

Frame(s, e) == [s |-> s, e |-> e, todo |-> <<>>]

NoLimiter == [min_interval |-> 0, _last |-> 0]

NoSent == [at |-> 0, waited |-> FALSE]

\* no helper is running
AuxIdle ==
    /\ now = 0
    /\ limiter = NoLimiter
    /\ locals = <<>>
    /\ wire = <<>>
    /\ sent = NoSent
    /\ dest = <<>>

InitWith(c, b) ==
    /\ AuxIdle
    /\ cfg = c
    /\ backend = b
    /\ pc = "group"
    /\ gi = 1
    /\ stack = <<>>
    /\ job = NoJob
    /\ stat = NoStat
    /\ hist = <<>>
    /\ error = NoError
    /\ log = <<>>
    /\ extracted = {}
    /\ arg = <<>>
    /\ ret = <<>>

Init ==
    \/ \E c \in SmallConfigs : InitWith(c, "mock")
    \/ \E c \in Configs \cup {ScenarioConfig} : InitWith(c, "flaky")

----------------------------------------------------------------------------
(* bulk_backfill_awards: the loop over the groups *)

\* line 440
Known_any(group) == TRUE
Known(group) == group \in AWARD_TYPE_GROUPS

StartGroup ==
    /\ pc = "group"
    /\ IF gi > Len(Groups)
       THEN /\ pc' = "done"
            /\ UNCHANGED <<gi, stack>>
       ELSE IF ~Known(Groups[gi])
       THEN /\ gi' = gi + 1
            /\ UNCHANGED <<pc, stack>>
       ELSE /\ stack' = << Frame(cfg.start_date, cfg.end_date) >>
            /\ pc' = "attempt"
            /\ UNCHANGED gi
    /\ UNCHANGED <<cfg, backend, job, stat, hist, error, log, extracted, arg, ret>>
    /\ UNCHANGED aux

----------------------------------------------------------------------------
(* _run_bulk_job_or_raise *)

SetOutcome(l, o) == [l EXCEPT ![Len(l)].outcome = o]

\* an exception that no handler of the pipeline catches leaves bulk_backfill_awards
Propagate(e, l) ==
    /\ pc' = "raised"
    /\ error' = e
    /\ stack' = <<>>
    /\ job' = NoJob
    /\ stat' = NoStat
    /\ hist' = <<>>
    /\ log' = l

Transport(b) == IF MayHTTPError(b) THEN {"ok", "HTTPError"} ELSE {"ok"}

\* _attempt lines 457-462 and the submission, lines 355-362
Submit ==
    /\ pc = "attempt"
    /\ \E t \in Transport(backend), r \in SubmitReplies(backend) :
        LET entry == [group |-> Groups[gi], s |-> Top.s, e |-> Top.e,
                      depth |-> Len(stack) - 1, outcome |-> "pending"]
            l == Append(log, entry)
        IN  IF t = "HTTPError"
            THEN Propagate(Exc("HTTPError", "HTTPError", NoStat), SetOutcome(l, "HTTPError"))
            ELSE IF ~r.file_name
            THEN /\ job' = [NoJob EXCEPT !.state = "FAILED", !.file_url = r.file_url]
                 /\ error' = Exc("RuntimeError", "NoFileName", NoStat)
                 /\ log' = SetOutcome(l, "NoFileName")
                 /\ pc' = "except"
                 /\ UNCHANGED <<stack, stat, hist>>
            ELSE /\ job' = [state |-> "POLLING", file_name |-> TRUE, file_url |-> r.file_url,
                            consecutive_exception_msgs |-> 0]
                 /\ log' = l
                 /\ pc' = "poll"
                 /\ UNCHANGED <<stack, stat, hist, error>>
    /\ UNCHANGED <<cfg, backend, gi, extracted, arg, ret>>
    /\ UNCHANGED aux

\* line 376
ExceptionStrike_late(n) == n > 3
ExceptionStrike(n) == n >= 3

HasException(msg) == Contains(EXCEPTION, lower(msg))

\* lines 365, 368 and 374 on each payload the backends can send, computed once
Read ==
    [r \in MockReplies \cup FlakyReplies \cup FailingReplies |->
        [status |-> lower(r.status), hit |-> HasException(r.message),
         crash |-> FirstLineFails(r.message)]]

\* one pass of the poll loop, lines 364-411
Poll ==
    /\ pc = "poll"
    /\ Len(hist) < MaxPolls
    /\ \E t \in Transport(backend) :
        IF t = "HTTPError"
        THEN Propagate(Exc("HTTPError", "HTTPError", NoStat), SetOutcome(log, "HTTPError"))
        ELSE \E r \in StatusReplies(backend) :
        IF Read[r].crash
        THEN Propagate(Exc("IndexError", "IndexError", NoStat), SetOutcome(log, "IndexError"))
        ELSE
        LET status == Read[r].status
            hit    == Read[r].hit
            n      == IF hit THEN job.consecutive_exception_msgs + 1
                             ELSE job.consecutive_exception_msgs
            j      == [job EXCEPT !.consecutive_exception_msgs = n]
        IN  /\ stat' = r
            /\ hist' = Append(hist, hit)
            /\ IF hit /\ ExceptionStrike(n)
               THEN /\ job' = [j EXCEPT !.state = "FAILED"]
                    /\ error' = Exc("RuntimeError", "BackendException", NoStat)
                    /\ log' = SetOutcome(log, "BackendException")
                    /\ pc' = "except"
               ELSE IF status \in FINISHED_SET
               THEN IF ~(r.file_url \/ job.file_url)
                    THEN /\ job' = [j EXCEPT !.state = "FINISHED"]
                         /\ error' = Exc("RuntimeError", "NoFileUrl", r)
                         /\ log' = SetOutcome(log, "NoFileUrl")
                         /\ pc' = "except"
                    ELSE /\ job' = [j EXCEPT !.state = "FINISHED"]
                         /\ pc' = "download"
                         /\ UNCHANGED <<error, log>>
               ELSE IF status \in FAILED_SET
               THEN /\ job' = [j EXCEPT !.state = "FAILED"]
                    /\ error' = Exc("RuntimeError", "JobFailed", r)
                    /\ log' = SetOutcome(log, "JobFailed")
                    /\ pc' = "except"
               ELSE /\ job' = j
                    /\ UNCHANGED <<pc, error, log>>
            /\ UNCHANGED stack
    /\ UNCHANGED <<cfg, backend, gi, extracted, arg, ret>>
    /\ UNCHANGED aux

\* the stack once the innermost _attempt has returned: the enclosing for-loops go on
\* to their next half, and an _attempt whose loop is over returns in its turn
RECURSIVE Unwind(_)
Unwind(st) ==
    LET rest == SubSeq(st, 1, Len(st) - 1)
    IN  IF rest = <<>> THEN <<>>
        ELSE LET parent == rest[Len(rest)]
             IN  IF parent.todo # <<>>
                 THEN Append([rest EXCEPT ![Len(rest)].todo = Tail(parent.todo)],
                             Frame(Head(parent.todo)[1], Head(parent.todo)[2]))
                 ELSE Unwind(rest)

\* a finished job: download, extraction and conversion, lines 384-406
Download ==
    /\ pc = "download"
    /\ \E o \in DownloadOutcomes(backend) :
        LET dir == <<Groups[gi], Top.s, Top.e>>
        IN  CASE o = "Unavailable" ->
                  /\ error' = Exc("RuntimeError", "Unavailable", NoStat)
                  /\ log' = SetOutcome(log, "Unavailable")
                  /\ pc' = "except"
                  /\ UNCHANGED <<stack, job, stat, hist, extracted, gi>>
              [] o = "BadZipFile" ->
                  /\ extracted' = extracted \cup {dir}
                  /\ Propagate(Exc("BadZipFile", "BadZipFile", NoStat),
                               SetOutcome(log, "BadZipFile"))
                  /\ UNCHANGED gi
              [] o = "ok" ->
                  /\ extracted' = extracted \cup {dir}
                  /\ log' = SetOutcome(log, "ok")
                  /\ stack' = Unwind(stack)
                  /\ pc' = IF Unwind(stack) = <<>> THEN "group" ELSE "attempt"
                  /\ gi' = IF Unwind(stack) = <<>> THEN gi + 1 ELSE gi
                  /\ job' = NoJob
                  /\ stat' = NoStat
                  /\ hist' = <<>>
                  /\ UNCHANGED error
    /\ UNCHANGED <<cfg, backend, arg, ret>>
    /\ UNCHANGED aux

----------------------------------------------------------------------------
(* _attempt: the handler of RuntimeError, lines 463-473 *)

ShouldSplit_ge(days, min_split_days) == days >= min_split_days
ShouldSplit(days, min_split_days) == days > min_split_days

Except ==
    /\ pc = "except"
    /\ LET days   == _days_between(Top.s, Top.e)
           halves == _split_range(Top.s, Top.e)
       IN  IF ShouldSplit(days, cfg.min_split_days) /\ Len(stack) >= RecursionLimit
           THEN \* the interpreter refuses the next nested call
                /\ stack' = <<>>
                /\ pc' = "raised"
                /\ error' = Exc("RecursionError", "RecursionError", NoStat)
           ELSE IF ShouldSplit(days, cfg.min_split_days)
           THEN /\ stack' = Append([stack EXCEPT ![Len(stack)].todo = Tail(halves)],
                                   Frame(Head(halves)[1], Head(halves)[2]))
                /\ pc' = "attempt"
                /\ error' = NoError
           ELSE /\ stack' = <<>>
                /\ pc' = "raised"
                /\ UNCHANGED error
    /\ job' = NoJob
    /\ stat' = NoStat
    /\ hist' = <<>>
    /\ UNCHANGED <<cfg, backend, gi, log, extracted, arg, ret>>
    /\ UNCHANGED aux

Next == StartGroup \/ Submit \/ Poll \/ Download \/ Except

Spec == Init /\ [][Next]_vars

----------------------------------------------------------------------------
(* The run against a backend on which every job fails *)

InitAllFail == \E c \in Configs \cup {ScenarioConfig} : InitWith(c, "failing")

NextAllFail == StartGroup \/ Submit \/ Poll \/ Except

\* one thread of control runs the whole backfill, and it never waits for anything
\* but the backend's replies: it always takes its next step
SpecAllFail == InitAllFail /\ [][NextAllFail]_vars /\ WF_vars(NextAllFail)

----------------------------------------------------------------------------
(* _split_range as a function of its arguments *)

BaseDates == { <<2024, 2, 24>>, <<2023, 12, 27>> }

SplitInputs ==
    { <<PlusDays(b, i), PlusDays(b, j)>> :
        b \in BaseDates, i \in 0..(DateSpan - 1), j \in 0..(DateSpan - 1) }

InitSplit ==
    /\ AuxIdle
    /\ arg \in { r \in SplitInputs : strptime(r[1]) <= strptime(r[2]) }
    /\ ret = <<>>
    /\ pc = "call"
    /\ cfg = ScenarioConfig
    /\ backend = "none"
    /\ gi = 1
    /\ stack = <<>>
    /\ job = NoJob
    /\ stat = NoStat
    /\ hist = <<>>
    /\ error = NoError
    /\ log = <<>>
    /\ extracted = {}

CallSplitRange ==
    /\ pc = "call"
    /\ ret' = _split_range(arg[1], arg[2])
    /\ pc' = "returned"
    /\ UNCHANGED <<cfg, backend, gi, stack, job, stat, hist, error, log, extracted, arg>>
    /\ UNCHANGED aux

SpecSplit == InitSplit /\ [][CallSplitRange]_vars

----------------------------------------------------------------------------
(* Notions the properties below share *)

Days(r) == _days_between(r.s, r.e)

Last == log[Len(log)]

\* the call of bulk_backfill_awards is over
Over == pc \in {"done", "raised"}

FirstHalf(r) == _split_range(r.s, r.e)[1]
SecondHalf(r) == _split_range(r.s, r.e)[2]

\* job i failed and the driver went on with the first half of its range
Bisected(i) ==
    /\ i < Len(log)
    /\ log[i].outcome \in RuntimeErrors
    /\ log[i + 1].group = log[i].group
    /\ log[i + 1].depth = log[i].depth + 1
    /\ <<log[i + 1].s, log[i + 1].e>> = FirstHalf(log[i])

SecondHalfSubmitted(i) ==
    \E j \in (i + 1)..Len(log) :
        /\ log[j].group = log[i].group
        /\ log[j].depth = log[i].depth + 1
        /\ <<log[j].s, log[j].e>> = SecondHalf(log[i])

\* the latest n polls of the running job all carried "exception"
LastPollsHit(n) ==
    /\ Len(hist) >= n
    /\ \A k \in (Len(hist) - n + 1)..Len(hist) : hist[k]

Polled == hist # <<>>

Terminal(st) == Read[st].status \in FINISHED_SET \cup FAILED_SET

----------------------------------------------------------------------------
(* C1: once a failed range was bisected, the job of its second half is     *)
(* submitted whether the attempt of the first half succeeded or ended in a *)
(* propagated failure, so by the end of the call every bisected range has  *)
(* had both halves attempted. Stated for calls in which every failure is   *)
(* a 'failed' status of the backend.                                       *)
C1_SecondHalfAttempted ==
    ( /\ Over
      /\ error.type \in {"None", "RuntimeError"}
      /\ \A i \in 1..Len(log) : log[i].outcome \in {"ok", "JobFailed"} )
    => \A i \in 1..Len(log) : Bisected(i) => SecondHalfSubmitted(i)

(* C2: a job that fails with a configuration error (no file_name in the    *)
(* submission response, no file_url on a finished job) is never followed   *)
(* by another job: the driver does not go on to a sub-range, and a missing *)
(* file_name is never polled.                                              *)
C2_ConfigErrorIsFinal ==
    \A i \in 1..Len(log) :
        log[i].outcome \in {"NoFileName", "NoFileUrl"} =>
            /\ i = Len(log)
            /\ pc \in {"except", "raised"}
            /\ (log[i].outcome = "NoFileName" /\ pc = "except" => hist = <<>>)

(* C3: a job whose status is not terminal is failed with the 'backend      *)
(* exception' error only when the three latest polls of the job all        *)
(* carried "exception": messages apart from one another do not add up.     *)
C3_OnlyThreeInARow ==
    (pc = "except" /\ error.what = "BackendException" /\ ~Terminal(stat))
    => LastPollsHit(3)

(* C4: when the three latest polls of a job carried "exception" with a     *)
(* non-terminal status, the job is FAILED on the third of them: the runner *)
(* has raised the backend-exception error, polls no more and has extracted *)
(* nothing for the range; after running, running, exception, exception the *)
(* job is still polling, so the documented sequence fails at poll 5.       *)
C4_ThreeInARowFail ==
    /\ (LastPollsHit(3) /\ ~Terminal(stat)) =>
            /\ pc = "except"
            /\ job.state = "FAILED"
            /\ error = Exc("RuntimeError", "BackendException", NoStat)
            /\ Last.outcome = "BackendException"
            /\ <<Last.group, Last.s, Last.e>> \notin extracted
    /\ (hist = <<FALSE, FALSE, TRUE, TRUE>> /\ ~Terminal(stat)) =>
            /\ pc = "poll"
            /\ job.state = "POLLING"

C4_Witness ==
    /\ hist = <<FALSE, FALSE, TRUE, TRUE, TRUE>>
    /\ stat = Stat(S_running, M_exc, FALSE)
    /\ pc = "except"
    /\ job.state = "FAILED"

(* C5: a poll whose status is finished, ready or success in any letter     *)
(* case puts the job in FINISHED on that poll, whatever the messages were. *)
C5_FinishedStatusFinishes ==
    (Polled /\ Read[stat].status \in FINISHED_SET) => job.state = "FINISHED"

(* C6: a poll whose status is failed or error in any letter case makes the *)
(* job FAILED on that poll: the runner raises an error that carries the    *)
(* status payload, and neither polls again nor downloads.                  *)
C6_FailedStatusFails ==
    (Polled /\ Read[stat].status \in FAILED_SET) =>
        /\ pc = "except"
        /\ job.state = "FAILED"
        /\ error = Exc("RuntimeError", "JobFailed", stat)

(* C7: a failed job is split if and only if its range has more than        *)
(* min_split_days days: then the driver goes on with the first half; else  *)
(* no further job is submitted and the failure reaches the caller.         *)
C7_SplitIffLonger ==
    /\ \A i \in 1..(Len(log) - 1) :
            log[i].outcome \in RuntimeErrors =>
                /\ Days(log[i]) > cfg.min_split_days
                /\ Bisected(i)
    /\ (log # <<>> /\ Last.outcome \in RuntimeErrors /\ pc # "except") =>
            IF Days(Last) > cfg.min_split_days
            THEN /\ pc = "attempt"
                 /\ <<Top.s, Top.e>> = FirstHalf(Last)
                 /\ error = NoError
            ELSE /\ pc = "raised"
                 /\ stack = <<>>
                 /\ error.type = "RuntimeError"
                 /\ error.what = Last.outcome

C7_Witness ==
    /\ pc = "raised"
    /\ Len(log) >= 2
    /\ Bisected(1)
    /\ Last.outcome = "JobFailed"
    /\ Days(Last) = cfg.min_split_days

----------------------------------------------------------------------------
DaySet(r) == { strftime(n) : n \in strptime(r[1])..strptime(r[2]) }

Abs(n) == IF n < 0 THEN -n ELSE n

(* C8: _split_range(start, end) with start <= end returns [start, mid] and *)
(* [mid+1, end]: their day-sets are disjoint, together they are the        *)
(* day-set of [start, end], and their sizes differ by at most one.         *)
C8_SplitPartitions ==
    pc = "returned" =>
        LET a == ret[1]
            b == ret[2]
        IN  /\ Len(ret) = 2
            /\ a[1] = arg[1]
            /\ b[2] = arg[2]
            /\ strptime(a[1]) <= strptime(a[2])
            /\ b[1] = PlusDays(a[2], 1)
            /\ DaySet(a) \cap DaySet(b) = {}
            /\ DaySet(a) \cup DaySet(b) = DaySet(arg)
            /\ Abs(Cardinality(DaySet(a)) - Cardinality(DaySet(b))) <= 1

\* a range over the leap day, split into 2024-02-27..02-29 and 2024-03-01..03-02
C8_Witness ==
    /\ pc = "returned"
    /\ arg = << <<2024, 2, 27>>, <<2024, 3, 2>> >>
    /\ ret = << << <<2024, 2, 27>>, <<2024, 2, 29>> >>, << <<2024, 3, 1>>, <<2024, 3, 2>> >> >>

----------------------------------------------------------------------------
\* ceil(log2(D/M)) for D, M >= 1: the least integer k with 2^k >= D/M
CeilLog2Ratio(D, M) ==
    IF D > M
    THEN CHOOSE k \in 1..D : 2^k * M >= D /\ 2^(k - 1) * M < D
    ELSE 0 - (CHOOSE j \in 0..M : D * 2^j <= M /\ D * 2^(j + 1) > M)

Max(a, b) == IF a >= b THEN a ELSE b

RequestedDays == _days_between(cfg.start_date, cfg.end_date)

\* no job lies deeper than max(0, ceil(log2(D/M))) or covers less than a day
Bounded ==
    \A i \in 1..Len(log) :
        /\ log[i].depth <= Max(0, CeilLog2Ratio(RequestedDays, cfg.min_split_days))
        /\ Days(log[i]) >= 1

(* C9: against a backend that fails every job, splitting a                 *)
(* range of D >= 1 days with min_split_days = M >= 1 terminates, no job is *)
(* submitted deeper than max(0, ceil(log2(D/M))) split levels, and no job  *)
(* is submitted for a range shorter than one day.                          *)
C9_SplittingTerminates == []Bounded /\ <>Over

(* C9, depth bound without the floor at zero: against a backend that fails *)
(* every job no job is                                                     *)
(* submitted deeper than ceil(log2(D/M)) split levels.                     *)
C9_DepthAtMostLog ==
    \A i \in 1..Len(log) :
        log[i].depth <= CeilLog2Ratio(RequestedDays, cfg.min_split_days)

\* 30 days with M = 7: the jobs of 30, 15, 8 and 4 days, the last at depth 3
C9_Witness ==
    /\ pc = "raised"
    /\ cfg = ScenarioConfig
    /\ Len(log) = 4
    /\ Last.depth = 3
    /\ Days(Last) = 4

----------------------------------------------------------------------------
\* the scenario's arguments, the first job ended on a 'failed' status and no later
\* job failed
ScenarioBackend ==
    /\ cfg = ScenarioConfig
    /\ log # <<>>
    /\ log[1].outcome = "JobFailed"
    /\ \A i \in 2..Len(log) : log[i].outcome \in {"ok", "pending"}

Sep(d) == <<2024, 9, d>>

(* C10: the contracts backfill of 2024-09-01..2024-09-30 with              *)
(* min_split_days 7, on a backend that reports 'failed' for the full range *)
(* and finishes every later job, submits exactly three jobs (the full      *)
(* range, 09-01..09-15, 09-16..09-30), leaves exactly two extraction       *)
(* directories, one per half, and returns without raising.                 *)
C10_EndToEnd ==
    ScenarioBackend =>
        /\ pc # "raised"
        /\ Len(log) <= 3
        /\ <<log[1].s, log[1].e>> = <<Sep(1), Sep(30)>>
        /\ Len(log) >= 2 => <<log[2].s, log[2].e>> = <<Sep(1), Sep(15)>>
        /\ Len(log) >= 3 => <<log[3].s, log[3].e>> = <<Sep(16), Sep(30)>>
        /\ pc = "done" =>
            /\ Len(log) = 3
            /\ error = NoError
            /\ extracted = { <<"contracts", Sep(1), Sep(15)>>,
                             <<"contracts", Sep(16), Sep(30)>> }
        /\ (pc = "group" /\ gi > Len(Groups)) => Len(log) = 3

C10_Witness ==
    /\ ScenarioBackend
    /\ pc = "done"
    /\ Len(log) = 3
    /\ Cardinality(extracted) = 2

----------------------------------------------------------------------------
(* Time: the clock counts ticks *)

\* ticks per second: a third of a second and every backoff delay of the pipeline
\* are whole numbers of ticks
TPS == 3 * 64

\* time.time() when the process starts: long after the zero of the clock
Epoch == 20 * TPS

Min(a, b) == IF a <= b THEN a ELSE b

\* the state of bulk_backfill_awards while a helper is run on its own
DrvIdle ==
    /\ cfg = ScenarioConfig
    /\ gi = 1
    /\ stack = <<>>
    /\ job = NoJob
    /\ stat = NoStat
    /\ hist = <<>>
    /\ log = <<>>
    /\ extracted = {}

----------------------------------------------------------------------------
(* _download_file: the availability probe and the streamed fetch *)

\* probes the model follows against a server that may become servable
MaxProbes == 4
\* streamed GETs the model follows
MaxAttempts == 3
\* chunks of the longest response body
MaxChunks == 2

\* line 285
max_wait_seconds == 45 * 60
\* line 284, the timeout of the session
SessionTimeout == 60

\* no response: the request ended in httpx.HTTPError
NoResponse == 0

\* line 293
Servable_strict(status) == status \in {200, 301, 302, 303, 307, 308}
Servable(status) == status \in {200, 206, 301, 302, 303, 307, 308}

\* line 318
Retryable(status) == status \in {403, 404, 429} \/ (500 <= status /\ status < 600)

\* lines 302 and 327: min(backoff_sec * 1.5, cap)
NextBackoff(b, cap) == Min((b * 3) \div 2, cap * TPS)

\* who serves the file: "slow" answers the probes in any way and then serves the
\* file, "lossy" is servable at once and serves the file in any way, "down" answers
\* 404 for ever and "unreachable" never answers; "ready" may answer a probe with
\* 404 and a GET with 503 before it serves the file
Servers == {"slow", "lossy", "down", "unreachable"}

ProbeReplies(b) ==
    CASE b = "slow"        -> {404, NoResponse, 200, 206, 302}
      [] b = "ready"       -> {404, 206}
      [] b = "lossy"       -> {206}
      [] b = "down"        -> {404}
      [] b = "unreachable" -> {NoResponse}

\* how long a probe takes
ProbeDurations(b) ==
    IF b \in {"down", "unreachable"} THEN {0, SessionTimeout * TPS} ELSE {0}

Reply(status, n) == [status |-> status, body |-> n]

NoReply == Reply(NoResponse, 0)

\* the answers to the streamed GET: a status and, with 200, a body of n chunks
GetReplies(b) ==
    IF b = "lossy"
    THEN { Reply(200, n) : n \in 0..MaxChunks }
         \cup { Reply(s, 0) : s \in {404, 400, 503, NoResponse} }
    ELSE IF b = "ready"
    THEN { Reply(200, 1), Reply(503, 0) }
    ELSE { Reply(200, 1) }

\* may the connection break while the body is streamed
MayBreak(b) == b = "lossy"

\* the k-th chunk of the body sent in answer to request number a
Chunk(a, k) == <<a, k>>

BodyOf(a, n) == [k \in 1..n |-> Chunk(a, k)]

Sent(kind, status, n) == [kind |-> kind, status |-> status, body |-> n]

Probes == SelectSeq(wire, LAMBDA m : m.kind = "probe")

Gets == SelectSeq(wire, LAMBDA m : m.kind = "get")

InitDownload ==
    /\ DrvIdle
    /\ backend \in Servers
    /\ pc = "probe"
    /\ error = NoError
    /\ arg = <<>>
    /\ ret = <<>>
    /\ now = Epoch
    /\ limiter = NoLimiter
    /\ locals = [start |-> Epoch, backoff_sec |-> 2 * TPS, attempt |-> 0, r |-> NoReply]
    /\ wire = <<>>
    /\ sent = NoSent
    /\ dest \in { <<>>, <<Chunk(0, 1)>> }

\* is_available, lines 289-297
Probe ==
    /\ pc = "probe"
    /\ backend \in {"down", "unreachable"} \/ Len(Probes) < MaxProbes
    /\ \E status \in ProbeReplies(backend), d \in ProbeDurations(backend) :
        /\ wire' = Append(wire, Sent("probe", status, 0))
        /\ sent' = [at |-> now, waited |-> FALSE]
        /\ now' = now + d
        /\ IF Servable(status)
           THEN /\ pc' = "stream"
                /\ locals' = [locals EXCEPT !.attempt = 0, !.backoff_sec = 2 * TPS]
           ELSE /\ pc' = "probe_sleep"
                /\ UNCHANGED locals
    /\ UNCHANGED <<backend, error, arg, ret, limiter, dest>>
    /\ UNCHANGED drv

\* the clock reading of line 300, taken once the sleep of line 299 is over
CheckedAt_before(t, sleep) == t
CheckedAt(t, sleep) == t + sleep

\* the body of the probe loop, lines 298-302
ProbeSleep ==
    /\ pc = "probe_sleep"
    /\ now' = now + locals.backoff_sec
    /\ IF CheckedAt(now, locals.backoff_sec) - locals.start > max_wait_seconds * TPS
       THEN /\ pc' = "raised"
            /\ error' = Exc("RuntimeError", "Unavailable", NoStat)
            /\ UNCHANGED locals
       ELSE /\ pc' = "probe"
            /\ locals' = [locals EXCEPT !.backoff_sec = NextBackoff(@, 30)]
            /\ UNCHANGED error
    /\ UNCHANGED <<backend, arg, ret, limiter, wire, sent, dest>>
    /\ UNCHANGED drv

\* open(dest, "wb"), line 312
Open_ab(file) == file
Open(file) == <<>>

\* sess.stream("GET", file_url) and the tests of the status, lines 308-324
StreamGet ==
    /\ pc = "stream"
    /\ locals.attempt < MaxAttempts
    /\ \E r \in GetReplies(backend) :
        /\ wire' = Append(wire, Sent("get", r.status, r.body))
        /\ sent' = [at |-> now, waited |-> FALSE]
        /\ IF r.status = 200
           THEN /\ dest' = Open(dest)
                /\ locals' = [locals EXCEPT !.attempt = @ + 1, !.r = r]
                /\ pc' = "write"
           ELSE /\ locals' = [locals EXCEPT !.attempt = @ + 1]
                /\ pc' = "stream_sleep"
                /\ UNCHANGED dest
    /\ UNCHANGED <<backend, error, arg, ret, now, limiter>>
    /\ UNCHANGED drv

\* one pass of the loop over r.iter_bytes(), lines 313-317
WriteChunk ==
    /\ pc = "write"
    /\ \/ /\ Len(dest) < locals.r.body
          /\ dest' = Append(dest, Chunk(locals.attempt, Len(dest) + 1))
          /\ UNCHANGED <<pc, locals>>
       \/ /\ Len(dest) < locals.r.body
          /\ MayBreak(backend)
          /\ pc' = "stream_sleep"
          /\ locals' = [locals EXCEPT !.r = NoReply]
          /\ UNCHANGED dest
       \/ /\ Len(dest) = locals.r.body
          /\ pc' = "returned"
          /\ UNCHANGED <<dest, locals>>
    /\ UNCHANGED <<backend, error, arg, ret, now, limiter, wire, sent>>
    /\ UNCHANGED drv

\* lines 326-327
StreamSleep ==
    /\ pc = "stream_sleep"
    /\ now' = now + locals.backoff_sec
    /\ locals' = [locals EXCEPT !.backoff_sec = NextBackoff(@, 45)]
    /\ pc' = "stream"
    /\ UNCHANGED <<backend, error, arg, ret, limiter, wire, sent, dest>>
    /\ UNCHANGED drv

NextDownload == Probe \/ ProbeSleep \/ StreamGet \/ WriteChunk \/ StreamSleep

SpecDownload == InitDownload /\ [][NextDownload]_vars

\* the probe phase against a server that never becomes servable
InitNeverServable == InitDownload /\ backend \in {"down", "unreachable"}

NextNeverServable == Probe \/ ProbeSleep

\* the thread that runs _download_file always takes its next step
SpecNeverServable ==
    InitNeverServable /\ [][NextNeverServable]_vars /\ WF_vars(NextNeverServable)

----------------------------------------------------------------------------
(* Notions the properties of _download_file share *)

\* the statuses the probe is to take for servable
ServableCodes == {200, 206, 301, 302, 303, 307, 308}

\* the statuses the streamed fetch is to retry on
RetryableCodes == {403, 404, 429} \cup 500..599

Statuses(s) == [i \in 1..Len(s) |-> s[i].status]

Elapsed == now - locals.start

Streaming == pc \in {"stream", "write", "stream_sleep", "returned"}

(* C11: in the streamed fetch a response whose status is neither 200 nor   *)
(* retryable (403, 404, 429, 5xx) ends the download at once: the error is  *)
(* raised to the caller and no further GET is issued.                      *)
C11_OtherStatusIsFatal ==
    \A i \in 1..Len(wire) :
        ( /\ wire[i].kind = "get"
          /\ wire[i].status # NoResponse
          /\ wire[i].status \notin {200} \cup RetryableCodes )
        => (i = Len(wire) /\ pc = "raised")

(* C12: _download_file returns only after a streamed GET was answered 200  *)
(* and every chunk of that response was written: on return the file holds  *)
(* exactly the body of that response, whatever the file held before and    *)
(* whatever earlier attempts, broken in mid-stream, had left in it.        *)
C12_CompleteBodyOnReturn ==
    pc = "returned" =>
        /\ wire # <<>>
        /\ wire[Len(wire)].kind = "get"
        /\ wire[Len(wire)].status = 200
        /\ dest = BodyOf(Len(Gets), wire[Len(wire)].body)

\* the first GET was answered 200 with two chunks and broke in mid-stream, the
\* second was answered 200 with one chunk
C12_Witness ==
    /\ pc = "returned"
    /\ Gets = << Sent("get", 200, 2), Sent("get", 200, 1) >>
    /\ dest = << Chunk(2, 1) >>

(* C13: the streamed GET is never issued before a probe returned a         *)
(* servable status (200, 206, 301, 302, 303, 307, 308) and no probe is     *)
(* issued after the first servable one: the number of probes is the        *)
(* position of the first servable answer, and after 404, 404, 404, 206 the *)
(* streamed download begins with no fifth probe.                           *)
C13_ProbeThenStream ==
    /\ \A i \in 1..Len(wire) :
            wire[i].kind = "get" =>
                \E j \in 1..(i - 1) :
                    wire[j].kind = "probe" /\ wire[j].status \in ServableCodes
    /\ \A i \in 1..Len(wire) :
            (wire[i].kind = "probe" /\ wire[i].status \in ServableCodes) =>
                /\ \A j \in (i + 1)..Len(wire) : wire[j].kind = "get"
                /\ Len(Probes) = i
                /\ Streaming
    /\ Statuses(Probes) = <<404, 404, 404, 206>> => Streaming

C13_Witness ==
    /\ Statuses(Probes) = <<404, 404, 404, 206>>
    /\ Len(Gets) = 1
    /\ pc = "returned"

(* C14: against a result URL that never becomes servable the probe phase   *)
(* ends by raising the timeout error once more than 45 minutes have        *)
(* elapsed: no probe is issued after the budget is exceeded and no         *)
(* streamed GET is ever issued.                                            *)
C14_ProbeTimesOut ==
    /\ [][Len(wire') > Len(wire) => Elapsed <= max_wait_seconds * TPS]_vars
    /\ [](Gets = <<>>)
    /\ <>( /\ pc = "raised"
           /\ error = Exc("RuntimeError", "Unavailable", NoStat)
           /\ Elapsed > max_wait_seconds * TPS )

C14_Witness ==
    /\ pc = "raised"
    /\ error = Exc("RuntimeError", "Unavailable", NoStat)
    /\ Elapsed > max_wait_seconds * TPS
    /\ Len(Probes) > 80
    /\ Gets = <<>>

----------------------------------------------------------------------------
(* RateLimiter *)

\* consecutive calls of wait() the model follows
MaxWaits == 3
\* seconds the model lets pass between the calls
MaxClock == 12

\* a rate is the fraction <<n, d>> of n requests in d seconds
RpsValues == { <<3, 1>>, <<1, 1>>, <<1, 2>>, <<1, 10>>, <<1, 20>> }

\* max(rps, 0.1), line 104
Floor(rps) == IF rps[1] * 10 < rps[2] THEN <<1, 10>> ELSE rps

\* 1.0 / rps, in ticks
Interval(rps) == (TPS * rps[2]) \div rps[1]

\* __init__, lines 103-105
RateLimiter(rps) ==
    [min_interval |-> Interval(Floor(rps)), _last |-> 0, delta |-> 0]

\* time.sleep may return late
Oversleep == {0, TPS \div 3}

\* wait() returns to its caller: _request, or the caller of the bare limiter
AfterWait == IF locals = <<>> THEN "idle" ELSE "send"

\* lines 108-110
WaitRead ==
    /\ pc = "wait"
    /\ limiter' = [limiter EXCEPT !.delta = now - limiter._last]
    /\ pc' = IF limiter'.delta < limiter.min_interval THEN "wait_sleep" ELSE "wait_stamp"
    /\ UNCHANGED <<backend, error, arg, ret, now, locals, wire, sent, dest>>
    /\ UNCHANGED drv

\* line 111
WaitSleep ==
    /\ pc = "wait_sleep"
    /\ \E late \in Oversleep : now' = now + (limiter.min_interval - limiter.delta) + late
    /\ pc' = "wait_stamp"
    /\ UNCHANGED <<backend, error, arg, ret, limiter, locals, wire, sent, dest>>
    /\ UNCHANGED drv

\* line 112: the clock is read again; t is the reading of line 108
Stamp_stale(t, clock) == t
Stamp(t, clock) == clock

WaitStamp ==
    /\ pc = "wait_stamp"
    /\ limiter' = [limiter EXCEPT !._last = Stamp(limiter._last + limiter.delta, now),
                                  !.delta = 0]
    /\ ret' = Append(ret, now)
    /\ sent' = [sent EXCEPT !.waited = TRUE]
    /\ pc' = AfterWait
    /\ UNCHANGED <<backend, error, arg, now, locals, wire, dest>>
    /\ UNCHANGED drv

\* the caller of the bare limiter calls wait() again
CallWait ==
    /\ pc = "idle"
    /\ Len(ret) < MaxWaits
    /\ pc' = "wait"
    /\ UNCHANGED <<backend, error, arg, ret, now, limiter, locals, wire, sent, dest>>
    /\ UNCHANGED drv

\* time passes between two calls
Elapse ==
    /\ pc = "idle"
    /\ now + TPS <= Epoch + MaxClock * TPS
    /\ now' = now + TPS
    /\ UNCHANGED <<backend, pc, error, arg, ret, limiter, locals, wire, sent, dest>>
    /\ UNCHANGED drv

InitLimiter ==
    /\ DrvIdle
    /\ backend = "none"
    /\ pc = "idle"
    /\ error = NoError
    /\ arg \in RpsValues
    /\ ret = <<>>
    /\ now = Epoch
    /\ limiter = RateLimiter(arg)
    /\ locals = <<>>
    /\ wire = <<>>
    /\ sent = NoSent
    /\ dest = <<>>

NextLimiter == CallWait \/ WaitRead \/ WaitSleep \/ WaitStamp \/ Elapse

SpecLimiter == InitLimiter /\ [][NextLimiter]_vars

----------------------------------------------------------------------------
(* USAClient._request under its retry decorator, and the requests of one   *)
(* bulk job or one search: submission, status polls, then _download_file   *)

\* requests to the API the model follows
MaxRequests == 3

\* line 60, the default of USASPENDING_MAX_RPS
MAX_RPS == <<3, 1>>

\* max_time of the decorator, line 145
max_time == 180

\* the API answers in any way, or with 503 for ever ("outage")
ApiReplies(b) == IF b = "outage" THEN {503} ELSE {200, 503, NoResponse}

\* the decorator sleeps a random part of the exponential delay
Jitter(b, value) == IF b = "outage" THEN {value * TPS} ELSE {0, value * TPS}

ApiKinds == {"submit", "poll", "search"}

ApiSent == SelectSeq(wire, LAMBDA m : m.kind \in ApiKinds)

\* a call of _request: the decorator notes the time and starts its delays at 1 s
Req(kind, t) == [kind |-> kind, start |-> t, value |-> 1]

\* resp.raise_for_status(), line 150, and the errors of the transport, line 148:
\* both are httpx.HTTPError
RaisesHTTPError(status) == status = NoResponse \/ (400 <= status /\ status < 600)

\* lines 148-153 and what the caller does with the answer: lines 355-364, 411 and
\* 389 of the job runner, lines 535-543 of the search
Send ==
    /\ pc = "send"
    /\ backend = "outage" \/ Len(ApiSent) < MaxRequests
    /\ \E status \in ApiReplies(backend) :
        /\ wire' = Append(wire, Sent(locals.kind, status, 0))
        /\ sent' = [at |-> now, waited |-> FALSE]
        /\ IF RaisesHTTPError(status)
           THEN /\ pc' = "retry"
                /\ UNCHANGED <<locals, now>>
           ELSE CASE locals.kind = "submit" ->
                      /\ locals' = Req("poll", now)
                      /\ pc' = "wait"
                      /\ UNCHANGED now
                  [] locals.kind = "poll" ->
                      \/ /\ now' = now + 5 * TPS
                         /\ locals' = Req("poll", now')
                         /\ pc' = "wait"
                      \/ /\ locals' = [start |-> now, backoff_sec |-> 2 * TPS,
                                       attempt |-> 0, r |-> NoReply]
                         /\ pc' = "probe"
                         /\ UNCHANGED now
                  [] locals.kind = "search" ->
                      \/ /\ locals' = Req("search", now)
                         /\ pc' = "wait"
                         /\ UNCHANGED now
                      \/ /\ pc' = "done"
                         /\ UNCHANGED <<locals, now>>
    /\ UNCHANGED <<backend, error, arg, ret, limiter, dest>>
    /\ UNCHANGED drv

\* the decorator of line 145 on an httpx.HTTPError: give up once max_time has
\* elapsed, else sleep and call again
Retry ==
    /\ pc = "retry"
    /\ LET elapsed == now - locals.start
       IN  IF elapsed >= max_time * TPS
           THEN /\ pc' = "raised"
                /\ error' = Exc("HTTPError", "HTTPError", NoStat)
                /\ UNCHANGED <<now, locals>>
           ELSE \E d \in Jitter(backend, locals.value) :
                /\ now' = now + Min(d, max_time * TPS - elapsed)
                /\ locals' = [locals EXCEPT !.value = 2 * @]
                /\ pc' = "wait"
                /\ UNCHANGED error
    /\ UNCHANGED <<backend, arg, ret, limiter, wire, sent, dest>>
    /\ UNCHANGED drv

InitClient ==
    /\ DrvIdle
    /\ backend \in {"ready", "outage"}
    /\ pc = "wait"
    /\ error = NoError
    /\ arg = MAX_RPS
    /\ ret = <<>>
    /\ now = Epoch
    /\ limiter = RateLimiter(MAX_RPS)
    /\ \E kind \in {"submit", "search"} : locals = Req(kind, Epoch)
    /\ wire = <<>>
    /\ sent = NoSent
    /\ dest = <<>>

NextClient ==
    \/ WaitRead \/ WaitSleep \/ WaitStamp \/ Send \/ Retry
    \/ Probe \/ ProbeSleep \/ StreamGet \/ WriteChunk \/ StreamSleep

SpecClient == InitClient /\ [][NextClient]_vars

----------------------------------------------------------------------------
\* 1/rps seconds, in ticks
PerRequest(rps) == (TPS * rps[2]) \div rps[1]

\* 1/max(rps, 0.1) seconds, in ticks
PerRequestFloored(rps) == IF rps[1] * 10 < rps[2] THEN 10 * TPS ELSE PerRequest(rps)

(* C17: each wait() returns no earlier than 1/max(rps, 0.1) seconds after  *)
(* the previous wait() on the same limiter returned, so N consecutive      *)
(* calls take at least (N-1) * 1/max(rps, 0.1) seconds.                    *)
C17_WaitsFlooredApart ==
    /\ \A i \in 2..Len(ret) : ret[i] - ret[i - 1] >= PerRequestFloored(arg)
    /\ ret # <<>> => ret[Len(ret)] - ret[1] >= (Len(ret) - 1) * PerRequestFloored(arg)

(* C17, for any rps > 0: each wait() returns no earlier than 1/rps seconds *)
(* after the previous wait() on the same limiter returned, so N            *)
(* consecutive calls take at least (N-1) * (1/rps) seconds.                *)
C17_WaitsApart ==
    /\ \A i \in 2..Len(ret) : ret[i] - ret[i - 1] >= PerRequest(arg)
    /\ ret # <<>> => ret[Len(ret)] - ret[1] >= (Len(ret) - 1) * PerRequest(arg)

\* one request a second: three calls in a row return exactly a second apart
C17_Witness ==
    /\ arg = <<1, 1>>
    /\ pc = "idle"
    /\ ret = << Epoch, Epoch + TPS, Epoch + 2 * TPS >>

----------------------------------------------------------------------------
(* C15: _request retries only errors of the transport: a response with a   *)
(* 4xx or 5xx status is raised to the caller after that one HTTP call, and *)
(* the wrapper never sends the request again.                              *)
C15_StatusErrorNotResent ==
    \A i \in 1..Len(wire) :
        ( /\ wire[i].kind \in ApiKinds
          /\ 400 <= wire[i].status
          /\ wire[i].status < 600 )
        => (i = Len(wire) /\ pc \in {"retry", "raised"})

(* C16: every HTTP request of the process (submission, status poll, search *)
(* page, their retries, availability probe, streamed GET) goes out only    *)
(* after a wait() on the client's RateLimiter that returned since the      *)
(* request before it, and so no earlier than the limiter's minimum         *)
(* interval after that request.                                            *)
C16_EveryRequestLimited ==
    [][ Len(wire') > Len(wire) =>
            /\ sent.waited
            /\ wire # <<>> => now - sent.at >= limiter.min_interval ]_vars

----------------------------------------------------------------------------
\* the positions of the requested groups that are not in the vocabulary
UnknownAt ==
    { i \in 1..Len(Groups) :
        Groups[i] \notin {"contracts", "loans", "idvs", "grants", "other_fin_ast",
                          "direct_payments"} }

Submitted(group) == \E j \in 1..Len(log) : log[j].group = group

(* C18: a group name that is not in the vocabulary is not fatal:           *)
(* bulk_backfill_awards submits no job for it, does not raise for it and   *)
(* goes on with the next group; if it raises, it is for a failed job, and  *)
(* a call that ends normally has run a job for every known group.          *)
C18_UnknownGroupSkipped ==
    /\ \A i \in UnknownAt : ~Submitted(Groups[i])
    /\ (stack # <<>> \/ pc \in {"attempt", "poll", "download", "except"})
            => gi \notin UnknownAt
    /\ pc = "raised" => (log # <<>> /\ Last.outcome \notin {"ok", "pending"})
    /\ pc = "done" =>
            \A i \in 1..Len(Groups) : i \notin UnknownAt => Submitted(Groups[i])

\* widgets is skipped, grants is downloaded and the call returns
C18_Witness ==
    /\ cfg.award_types = <<"widgets", "grants">>
    /\ pc = "done"
    /\ error = NoError
    /\ Last.group = "grants"
    /\ Last.outcome = "ok"

(* C18, the unknown group as a fatal error: bulk_backfill_awards raises    *)
(* for it instead of continuing, and submits no job for it: the loop never *)
(* goes past it and the call never ends normally.                          *)
C18_UnknownGroupIsFatal ==
    \A i \in UnknownAt :
        /\ gi <= i
        /\ pc # "done"
        /\ ~Submitted(Groups[i])

----------------------------------------------------------------------------
(* shard_iter: the generator of the incremental search *)

\* largest chunk_days besides the default
MaxChunkDays == 3

\* the default of chunk_days, line 486
DefaultChunkDays == 7

\* the placeholder of line 495
None == "None"

ShardRanges ==
    { r \in SplitInputs : strptime(r[1]) <= strptime(r[2]) }
    \cup { << <<2024, 9, 1>>, <<2024, 9, 10>> >> }

\* the group lists and agency lists of a call; <<>> is an empty list or None
ShardLists ==
    { << <<>>, <<>> >>,
      << <<"contracts">>, <<"Department of Defense">> >>,
      << <<"contracts", "grants">>, <<>> >>,
      << <<"grants", "widgets">>, <<"Department of Defense", "NASA">> >> }

ShardInputs ==
    { [start_date |-> r[1], end_date |-> r[2], groups |-> l[1], agencies |-> l[2],
       chunk_days |-> c] :
        r \in ShardRanges, l \in ShardLists, c \in 1..MaxChunkDays \cup {DefaultChunkDays} }

\* `x or default`, lines 491 and 495
Or(x, default) == IF x = <<>> THEN default ELSE x

\* line 497
ShardEnd_long(current, chunk_days, end) == Min(current + chunk_days, end)
ShardEnd(current, chunk_days, end) == Min(current + (chunk_days - 1), end)

\* the tuples of lines 500-502 for one window, a list per group
RECURSIVE Yields(_, _, _, _)
Yields(groups, agencies, s, e) ==
    IF groups = <<>> THEN <<>>
    ELSE [i \in 1..Len(agencies) |-> <<Head(groups), s, e, agencies[i]>>]
         \o Yields(Tail(groups), agencies, s, e)

InitShard ==
    /\ DrvIdle
    /\ AuxIdle
    /\ backend = "none"
    /\ error = NoError
    /\ arg \in ShardInputs
    /\ ret = <<>>
    /\ pc = "call"

\* lines 491-495
ShardStart ==
    /\ pc = "call"
    /\ locals' = [groups |-> Or(arg.groups, <<"contracts">>),
                  agencies |-> Or(arg.agencies, <<None>>),
                  current |-> strptime(arg.start_date),
                  end |-> strptime(arg.end_date)]
    /\ pc' = "while"
    /\ UNCHANGED <<backend, error, arg, ret, now, limiter, wire, sent, dest>>
    /\ UNCHANGED drv

\* one pass of the while-loop, lines 496-503, with all it yields
ShardWindow ==
    /\ pc = "while"
    /\ IF locals.current <= locals.end
       THEN LET shard_end == ShardEnd(locals.current, arg.chunk_days, locals.end)
                s == strftime(locals.current)
                e == strftime(shard_end)
            IN  /\ ret' = ret \o Yields(locals.groups, locals.agencies, s, e)
                /\ locals' = [locals EXCEPT !.current = shard_end + 1]
                /\ UNCHANGED pc
       ELSE /\ pc' = "returned"
            /\ UNCHANGED <<ret, locals>>
    /\ UNCHANGED <<backend, error, arg, now, limiter, wire, sent, dest>>
    /\ UNCHANGED drv

NextShard == ShardStart \/ ShardWindow

SpecShard == InitShard /\ [][NextShard]_vars

----------------------------------------------------------------------------
\* the groups and agencies the windows are crossed with: no group stands for
\* contracts, no agency for the one placeholder None
CrossGroups == IF arg.groups = <<>> THEN <<"contracts">> ELSE arg.groups
CrossAgencies == IF arg.agencies = <<>> THEN <<"None">> ELSE arg.agencies

PerWindow == Len(CrossGroups) * Len(CrossAgencies)

WindowCount == Len(ret) \div PerWindow

\* the first tuple yielded for window w
WindowHead(w) == ret[(w - 1) * PerWindow + 1]

WindowDays(w) == _days_between(WindowHead(w)[2], WindowHead(w)[3])

(* C19: for start <= end and chunk_days >= 1 shard_iter yields windows     *)
(* that are consecutive, inclusive, without overlap and cover [start, end] *)
(* exactly: the first starts at start, each next one starts the day after  *)
(* the one before ends, all but the last have chunk_days days, the last    *)
(* ends at end; each window is yielded once for every (group, agency)      *)
(* pair, group by group, with the placeholder None when no agencies are    *)
(* given; 2024-09-01..2024-09-10 by 7 gives 09-01..09-07 and 09-08..09-10. *)
C19_ShardsCover ==
    /\ Len(ret) = WindowCount * PerWindow
    /\ \A w \in 1..WindowCount :
        /\ \A g \in 1..Len(CrossGroups), a \in 1..Len(CrossAgencies) :
                ret[(w - 1) * PerWindow + (g - 1) * Len(CrossAgencies) + a]
                    = <<CrossGroups[g], WindowHead(w)[2], WindowHead(w)[3], CrossAgencies[a]>>
        /\ WindowHead(w)[2] =
                IF w = 1 THEN arg.start_date ELSE PlusDays(WindowHead(w - 1)[3], 1)
        /\ WindowDays(w) >= 1
        /\ WindowDays(w) <= arg.chunk_days
        /\ w < WindowCount => WindowDays(w) = arg.chunk_days
        /\ strptime(WindowHead(w)[3]) <= strptime(arg.end_date)
    /\ pc = "returned" =>
        /\ WindowCount >= 1
        /\ WindowHead(WindowCount)[3] = arg.end_date
        /\ ( /\ arg.start_date = <<2024, 9, 1>>
             /\ arg.end_date = <<2024, 9, 10>>
             /\ arg.chunk_days = 7 ) =>
                /\ WindowCount = 2
                /\ WindowHead(1)[3] = <<2024, 9, 7>>
                /\ WindowHead(2)[2] = <<2024, 9, 8>>

C19_Witness ==
    /\ pc = "returned"
    /\ arg.chunk_days = 7
    /\ ret = << <<"contracts", <<2024, 9, 1>>, <<2024, 9, 7>>, "None">>,
                <<"grants", <<2024, 9, 1>>, <<2024, 9, 7>>, "None">>,
                <<"contracts", <<2024, 9, 8>>, <<2024, 9, 10>>, "None">>,
                <<"grants", <<2024, 9, 8>>, <<2024, 9, 10>>, "None">> >>

----------------------------------------------------------------------------
(* dedupe_minimal and drain_spending_by_award. A data frame is the         *)
(* sequence of its rows, a row a function from column names to values.     *)

\* pages of one search the model follows
MaxPages == 3
\* rows of the longest page
MaxRows == 2

\* line 526
PageLimit == 500

\* line 212
DedupeKeys_short == <<"Award ID">>
DedupeKeys == <<"Award ID", "Start Date", "End Date", "Last Modified Date">>

Columns(df) == UNION { DOMAIN df[i] : i \in 1..Len(df) }

\* DataFrame.drop_duplicates(subset=keys): the first row of each key is kept
RECURSIVE drop_duplicates(_, _, _)
drop_duplicates(df, keys, seen) ==
    IF df = <<>> THEN <<>>
    ELSE LET k == [i \in 1..Len(keys) |-> Head(df)[keys[i]]]
         IN  IF k \in seen
             THEN drop_duplicates(Tail(df), keys, seen)
             ELSE <<Head(df)>> \o drop_duplicates(Tail(df), keys, seen \cup {k})

\* lines 207-220
dedupe_minimal(df) ==
    LET keys == SelectSeq(DedupeKeys, LAMBDA c : c \in Columns(df))
    IN  IF keys = <<>> THEN df ELSE drop_duplicates(df, keys, {})

\* the k-th row of the answer to the request for a page
Row(id, page, k) ==
    ("Award ID" :> id) @@ ("Last Modified Date" :> "2024-09-30")
    @@ ("Description" :> <<page, k>>)

AwardIds == {"A1", "A2"}

\* the results of a page: up to MaxRows rows; none also stands for a missing or
\* null "results"
PageResults(page) ==
    UNION { { [k \in 1..n |-> Row(f[k], page, k)] : f \in [1..n -> AwardIds] } :
            n \in 0..MaxRows }

\* "page_metadata": missing, null, {}, {"hasNext": true} or {"hasNext": false}
PageMetas == {"missing", "null", "empty", "more", "last"}

\* resp.get("page_metadata", {}), line 540
MetaOf(m) == IF m = "missing" THEN "empty" ELSE m

\* meta.get("hasNext", False), line 541
HasNext_default_true(meta) == meta \in {"more", "empty"}
HasNext(meta) == meta = "more"

Asked(page, results, meta) ==
    [kind |-> "search", page |-> page, limit |-> PageLimit, results |-> results,
     meta |-> meta]

InitDrain ==
    /\ DrvIdle
    /\ backend = "api"
    /\ pc = "drain"
    /\ error = NoError
    /\ arg = <<>>
    /\ ret = <<>>
    /\ now = 0
    /\ limiter = NoLimiter
    /\ locals = [page |-> 1, rows |-> <<>>]
    /\ wire = <<>>
    /\ sent = NoSent
    /\ dest = <<>>

\* one pass of the loop, lines 519-543, and the return, lines 544-547
DrainPage ==
    /\ pc = "drain"
    /\ locals.page <= MaxPages
    /\ \/ /\ wire' = Append(wire, Asked(locals.page, <<>>, "error"))
          /\ pc' = "raised"
          /\ error' = Exc("HTTPError", "HTTPError", NoStat)
          /\ UNCHANGED <<locals, ret>>
       \/ \E results \in PageResults(locals.page), m \in PageMetas :
            LET rows == locals.rows \o results
            IN  /\ wire' = Append(wire, Asked(locals.page, results, m))
                /\ IF results = <<>>
                   THEN /\ pc' = "returned"
                        /\ ret' = dedupe_minimal(locals.rows)
                        /\ UNCHANGED <<locals, error>>
                   ELSE IF MetaOf(m) = "null"
                   THEN /\ pc' = "raised"
                        /\ error' = Exc("AttributeError", "AttributeError", NoStat)
                        /\ locals' = [locals EXCEPT !.rows = rows]
                        /\ UNCHANGED ret
                   ELSE IF ~HasNext(MetaOf(m))
                   THEN /\ pc' = "returned"
                        /\ ret' = dedupe_minimal(rows)
                        /\ locals' = [locals EXCEPT !.rows = rows]
                        /\ UNCHANGED error
                   ELSE /\ locals' = [page |-> locals.page + 1, rows |-> rows]
                        /\ UNCHANGED <<pc, ret, error>>
    /\ UNCHANGED <<backend, arg, now, limiter, sent, dest>>
    /\ UNCHANGED drv

SpecDrain == InitDrain /\ [][DrainPage]_vars

----------------------------------------------------------------------------
RECURSIVE RowsOf(_)
RowsOf(asked) ==
    IF asked = <<>> THEN <<>> ELSE Head(asked).results \o RowsOf(Tail(asked))

\* the page answered with rows and with the report of a next page
HasMore(m) == m.results # <<>> /\ m.meta = "more"

(* C20: drain_spending_by_award requests the pages 1, 2, 3, ... in order,  *)
(* each with limit 500; it stops at the first page that returns no rows or *)
(* whose page metadata does not report a next page and requests no page    *)
(* after it; the rows it holds are those of all the requested pages, in    *)
(* the order of the requests.                                              *)
C20_PagesInOrder ==
    /\ \A i \in 1..Len(wire) :
        /\ wire[i].kind = "search"
        /\ wire[i].page = i
        /\ wire[i].limit = 500
        /\ i < Len(wire) => HasMore(wire[i])
    /\ locals.rows = RowsOf(wire)
    /\ wire # <<>> =>
        IF HasMore(wire[Len(wire)])
        THEN pc = "drain" /\ locals.page = Len(wire) + 1
        ELSE pc \in {"returned", "raised"}

\* two pages with rows and a next page, then a page that reports no next page
C20_Witness ==
    /\ pc = "returned"
    /\ Len(wire) = 3
    /\ wire[3].meta = "last"
    /\ Len(wire[3].results) = 1
    /\ Len(locals.rows) = 5

----------------------------------------------------------------------------
(* dedupe_minimal as a function of its argument *)

\* rows of the longest table
MaxTableRows == 3

\* the column sets of the tables: none, no key column, one, two and three of them
TableColumns ==
    { {}, {"Description"}, {"Award ID", "Description"},
      {"Award ID", "Last Modified Date", "Description"},
      {"Start Date", "End Date", "Description"},
      {"Award ID", "Start Date", "End Date"} }

CellValues == {"x", "y"}

\* row i of a table: "Description" holds i, the other columns any value
TableRows(cols, i) ==
    { [c \in cols |-> IF c = "Description" THEN i ELSE f[c]] :
        f \in [cols \ {"Description"} -> CellValues] }

RECURSIVE TablesOf(_, _)
TablesOf(cols, n) ==
    IF n = 0 THEN { <<>> }
    ELSE { Append(t, r) : t \in TablesOf(cols, n - 1), r \in TableRows(cols, n) }

Tables == UNION { TablesOf(cols, n) : cols \in TableColumns, n \in 0..MaxTableRows }

InitDedupe ==
    /\ DrvIdle
    /\ AuxIdle
    /\ backend = "none"
    /\ error = NoError
    /\ arg \in Tables
    /\ ret = <<>>
    /\ pc = "call"

CallDedupe ==
    /\ pc = "call"
    /\ ret' = dedupe_minimal(arg)
    /\ pc' = "returned"
    /\ UNCHANGED <<backend, error, arg>>
    /\ UNCHANGED drv
    /\ UNCHANGED aux

SpecDedupe == InitDedupe /\ [][CallDedupe]_vars

----------------------------------------------------------------------------
\* the key columns the table has
K == {"Award ID", "Start Date", "End Date", "Last Modified Date"} \cap Columns(arg)

\* the K-tuple of a row
KTuple(row) == [c \in K |-> row[c]]

\* the positions of the rows no earlier row agrees with on K
Firsts == { i \in 1..Len(arg) : \A j \in 1..(i - 1) : KTuple(arg[j]) # KTuple(arg[i]) }

\* the rows of df at the positions of P, in the order of df
RECURSIVE Pick(_, _, _)
Pick(df, P, i) ==
    IF i > Len(df) THEN <<>>
    ELSE (IF i \in P THEN <<df[i]>> ELSE <<>>) \o Pick(df, P, i + 1)

(* C21: with K the key columns (Award ID, Start Date, End Date, Last       *)
(* Modified Date) the table has, dedupe_minimal returns the table as it is *)
(* if K is empty; otherwise it returns one row per distinct K-tuple, the   *)
(* first with that tuple, in the order of the table, so as many rows as    *)
(* there are distinct K-tuples.                                            *)
C21_FirstOfEachKey ==
    pc = "returned" =>
        IF K = {}
        THEN ret = arg
        ELSE /\ ret = Pick(arg, Firsts, 1)
             /\ Len(ret) = Cardinality({ KTuple(arg[i]) : i \in 1..Len(arg) })

\* rows 1 and 3 agree on Award ID and Last Modified Date, row 2 differs in the date
C21_Witness ==
    /\ pc = "returned"
    /\ Len(arg) = 3
    /\ K = {"Award ID", "Last Modified Date"}
    /\ ret = << arg[1], arg[2] >>
    /\ arg[1]["Award ID"] = arg[2]["Award ID"]

----------------------------------------------------------------------------
(* _parse_agency_strings (lines 226-267): agency specifiers to filter dicts.
   A specifier is the sequence of its characters; None and the empty list,
   which line 238 and line 267 do not tell apart, are both <<>>. *)

\* most specifiers in one list
MaxSpecs == 2

FUNDING_PREFIX == <<"f","u","n","d","i","n","g",":">>
AWARDING_PREFIX == <<"a","w","a","r","d","i","n","g",":">>

\* str.startswith
startswith(s, prefix) ==
    Len(s) >= Len(prefix) /\ SubSeq(s, 1, Len(prefix)) = prefix

\* s[len(prefix):]
after(s, prefix) == SubSeq(s, Len(prefix) + 1, Len(s))

\* s.rsplit("|", 1): the two sides of the last bar
RECURSIVE split1_last(_)
split1_last(s) ==
    IF s[Len(s)] = "|" THEN <<SubSeq(s, 1, Len(s) - 1), <<>>>>
    ELSE LET rest == split1_last(SubSeq(s, 1, Len(s) - 1))
         IN  <<rest[1], Append(rest[2], s[Len(s)])>>

\* line 253: s.split("|", 1) of a string that has a bar: the two sides of the
\* first bar
RECURSIVE split1(_)
split1(s) ==
    IF Head(s) = "|" THEN <<<<>>, Tail(s)>>
    ELSE LET rest == split1(Tail(s))
         IN  <<<<Head(s)>> \o rest[1], rest[2]>>

\* lines 242-265: the body of the loop, the dict appended for one specifier
AgencyFilter(raw, default_type) ==
    LET s0 == strip(raw)
        funding == startswith(lower(s0), FUNDING_PREFIX)
        awarding == startswith(lower(s0), AWARDING_PREFIX)
        a_type == IF funding THEN "funding"
                  ELSE IF awarding THEN "awarding" ELSE default_type
        s == IF funding THEN strip(after(s0, FUNDING_PREFIX))
             ELSE IF awarding THEN strip(after(s0, AWARDING_PREFIX)) ELSE s0
    IN  IF \E i \in 1..Len(s) : s[i] = "|"
        THEN [type |-> a_type, tier |-> "subtier",
              name |-> strip(split1(s)[1]), toptier_name |-> strip(split1(s)[2])]
        ELSE [type |-> a_type, tier |-> "toptier", name |-> s]

_parse_agency_strings(agencies, default_type) ==
    IF agencies = <<>> THEN <<>>
    ELSE [i \in 1..Len(agencies) |-> AgencyFilter(agencies[i], default_type)]

\* the specifiers given: bare, prefixed in either case, with one bar and with
\* two, with blanks around every part, with nothing after the prefix, empty,
\* with a near-prefix and with two prefixes
Specifiers ==
    {
      <<"D">>,   \* 'D'
      <<"f","u","n","d","i","n","g",":","D">>,   \* 'funding:D'
      <<"F","U","N","D","I","N","G",":","D">>,   \* 'FUNDING:D'
      <<"a","w","a","r","d","i","n","g",":","D">>,   \* 'awarding:D'
      <<"A","|","U">>,   \* 'A|U'
      <<"f","u","n","d","i","n","g",":","A","|","U">>,   \* 'funding:A|U'
      <<"A","|","U","|","V">>,   \* 'A|U|V'
      <<" ","D"," ">>,   \* ' D '
      <<"F","u","n","d","i","n","g",":"," ","A"," ","|"," ","U"," ">>,   \* 'Funding: A | U '
      <<"f","u","n","d","i","n","g",":">>,   \* 'funding:'
      <<>>,   \* ''
      <<"f","u","n","d","i","n",":","D">>,   \* 'fundin:D'
      <<"f","u","n","d","i","n","g",":","a","w","a","r","d","i","n","g",":","D">>   \* 'funding:awarding:D'
    }

RECURSIVE SpecifierLists(_)
SpecifierLists(n) ==
    IF n = 0 THEN {<<>>}
    ELSE LET shorter == SpecifierLists(n - 1)
         IN  shorter \cup {Append(l, s) : l \in {x \in shorter : Len(x) = n - 1},
                                          s \in Specifiers}

AgencyTypes == {"awarding", "funding"}

InitAgency ==
    /\ DrvIdle /\ AuxIdle
    /\ backend = "none"
    /\ error = NoError
    /\ arg \in [agencies : SpecifierLists(MaxSpecs), default_type : AgencyTypes]
    /\ ret = <<>>
    /\ pc = "call"

CallParse ==
    /\ pc = "call"
    /\ ret' = _parse_agency_strings(arg.agencies, arg.default_type)
    /\ pc' = "returned"
    /\ UNCHANGED <<backend, error, arg>>
    /\ UNCHANGED drv
    /\ UNCHANGED aux

SpecAgency == InitAgency /\ [][CallParse]_vars

\* what the grammar gives for one specifier; with trim the specifier, what
\* follows the prefix and both sides of the bar lose their surrounding blanks
Grammar(spec, default_type, trim) ==
    LET Text(x) == IF trim THEN strip(x) ELSE x
        s0 == Text(spec)
        Has(p) == Len(s0) >= Len(p) /\ \A i \in 1..Len(p) : LowerChar(s0[i]) = p[i]
        role == IF Has(FUNDING_PREFIX) THEN "funding"
                ELSE IF Has(AWARDING_PREFIX) THEN "awarding" ELSE default_type
        cut == IF Has(FUNDING_PREFIX) THEN Len(FUNDING_PREFIX)
               ELSE IF Has(AWARDING_PREFIX) THEN Len(AWARDING_PREFIX) ELSE 0
        rest == Text([i \in 1..(Len(s0) - cut) |-> s0[i + cut]])
        bars == {i \in 1..Len(rest) : rest[i] = "|"}
    IN  IF bars = {}
        THEN [type |-> role, tier |-> "toptier", name |-> rest]
        ELSE LET bar == CHOOSE i \in bars : \A j \in bars : i <= j
             IN  [type |-> role, tier |-> "subtier",
                  name |-> Text(SubSeq(rest, 1, bar - 1)),
                  toptier_name |-> Text(SubSeq(rest, bar + 1, Len(rest)))]

FollowsGrammar(trim) ==
    pc = "returned" =>
        /\ Len(ret) = Len(arg.agencies)
        /\ \A i \in 1..Len(ret) :
               ret[i] = Grammar(arg.agencies[i], arg.default_type, trim)

\* C22 (as the code has it): _parse_agency_strings gives one filter per
\* specifier, in input order, and none for an empty or missing list; the
\* specifier, what follows its prefix and both sides of the first bar are taken
\* without their surrounding blanks: a leading funding: or awarding: in any case
\* sets the role and is removed, else the role is the default; with a bar the
\* filter is a subtier with name the text before the first bar and toptier_name
\* the text after it, else a toptier with name the remainder and no toptier_name.
C22_FilterPerSpecifierTrimmed == FollowsGrammar(TRUE)

\* C22 as stated: the same with the texts taken as given, blanks included.
C22_FilterPerSpecifier == FollowsGrammar(FALSE)

C22_Witness ==
    /\ pc = "returned"
    /\ Len(arg.agencies) = 2
    /\ arg.agencies[1] = <<"F","u","n","d","i","n","g",":"," ","A"," ","|"," ","U"," ">>
    /\ arg.agencies[2] = <<"A","|","U","|","V">>
    /\ arg.default_type = "awarding"
    /\ ret[1] = [type |-> "funding", tier |-> "subtier",
                 name |-> <<"A">>, toptier_name |-> <<"U">>]
    /\ ret[2].toptier_name = <<"U","|","V">>

----------------------------------------------------------------------------
(* The bulk-backfill command line (main, lines 604-619 and 634-649) down to
   the agencies of the payload (lines 437 and 453-454). arg is the parsed
   command line, ret the value of filters.agencies in the payload, <<>> when
   the payload has no such key. *)

\* line 437: the default role handed to _parse_agency_strings
BulkDefaultType == "awarding"

InitCli ==
    /\ DrvIdle /\ AuxIdle
    /\ backend = "none"
    /\ error = NoError
    /\ arg \in [agencies : SpecifierLists(MaxSpecs), agency_type : AgencyTypes]
    /\ ret = <<>>
    /\ pc = "main"

\* lines 638-649: main calls bulk_backfill_awards with args.agencies; no
\* argument of the call carries args.agency_type
CallBulkBackfill ==
    /\ pc = "main"
    /\ pc' = "bulk_backfill_awards"
    /\ UNCHANGED <<backend, error, arg, ret>>
    /\ UNCHANGED drv
    /\ UNCHANGED aux

\* lines 437, 453-454
BuildPayload ==
    /\ pc = "bulk_backfill_awards"
    /\ ret' = _parse_agency_strings(arg.agencies, BulkDefaultType)
    /\ pc' = "payload"
    /\ UNCHANGED <<backend, error, arg>>
    /\ UNCHANGED drv
    /\ UNCHANGED aux

NextCli == CallBulkBackfill \/ BuildPayload

SpecCli == InitCli /\ [][NextCli]_vars

Unprefixed(spec) ==
    /\ ~startswith(lower(strip(spec)), FUNDING_PREFIX)
    /\ ~startswith(lower(strip(spec)), AWARDING_PREFIX)

\* C23: the --agency-type option sets the role of every agency given without a
\* prefix: in the payload each such agency has the type given by --agency-type.
C23_AgencyTypeSetsRole ==
    pc = "payload" =>
        \A i \in 1..Len(arg.agencies) :
            Unprefixed(arg.agencies[i]) => ret[i].type = arg.agency_type

----------------------------------------------------------------------------
(* calculate_date_range of the schedulers (schedule_etl_with_drive.py lines
   105-128; schedule_etl.py lines 77-100 has the same text). arg is the call,
   with the date datetime.now().date() gives; ret the pair returned, <<>>
   when the call raises. *)

\* largest --backfill-days besides the default
MaxBackfillDays == 3

DefaultBackfillDays == 30

\* --mode has the first four; the method can be called with any string
Modes == {"daily", "weekly", "monthly", "backfill", "hourly"}

Todays == { PlusDays(b, i) : b \in BaseDates, i \in 0..(DateSpan - 1) }

Yesterday_today(today) == today
\* today - timedelta(days=1), on day numbers
Yesterday(today) == today - 1

\* the pair of day numbers before strftime; <<>> for the ValueError
DateRange(mode, backfill_days, today) ==
    IF mode = "daily"
    THEN <<Yesterday(today), Yesterday(today)>>
    ELSE IF mode = "weekly"
    THEN <<Yesterday(today) - 6, Yesterday(today)>>
    ELSE IF mode = "monthly"
    THEN <<Yesterday(today) - 29, Yesterday(today)>>
    ELSE IF mode = "backfill"
    THEN <<Yesterday(today) - (backfill_days - 1), Yesterday(today)>>
    ELSE <<>>

calculate_date_range(mode, backfill_days, today) ==
    LET range == DateRange(mode, backfill_days, strptime(today))
    IN  IF range = <<>> THEN <<>>
        ELSE <<strftime(range[1]), strftime(range[2])>>

InitSchedule ==
    /\ DrvIdle /\ AuxIdle
    /\ backend = "none"
    /\ error = NoError
    /\ arg \in [mode : Modes,
                backfill_days : 0..MaxBackfillDays \cup {DefaultBackfillDays},
                today : Todays]
    /\ ret = <<>>
    /\ pc = "call"

CallDateRange ==
    /\ pc = "call"
    /\ ret' = calculate_date_range(arg.mode, arg.backfill_days, arg.today)
    /\ IF ret' = <<>>
       THEN pc' = "raised" /\ error' = Exc("ValueError", "Unknown mode", NoStat)
       ELSE pc' = "returned" /\ UNCHANGED error
    /\ UNCHANGED <<backend, arg>>
    /\ UNCHANGED drv
    /\ UNCHANGED aux

SpecSchedule == InitSchedule /\ [][CallDateRange]_vars

\* the days of the inclusive range a returned pair names
DaysIn(range) ==
    { d \in (strptime(arg.today) - 2 * DefaultBackfillDays)..(strptime(arg.today) + 2) :
        strptime(range[1]) <= d /\ d <= strptime(range[2]) }

EndsYesterday(range) == strptime(range[2]) = strptime(arg.today) - 1

\* C24: with T the current date, calculate_date_range returns (T-1, T-1) for
\* daily; for weekly, monthly and backfill an inclusive range that ends on T-1
\* and has exactly 7, 30 and backfill_days days; any other mode raises
\* ValueError.
C24_RangesEndYesterday ==
    /\ pc = "returned" =>
           /\ arg.mode \in {"daily", "weekly", "monthly", "backfill"}
           /\ EndsYesterday(ret)
           /\ arg.mode = "daily" => ret[1] = ret[2]
           /\ arg.mode = "weekly" => Cardinality(DaysIn(ret)) = 7
           /\ arg.mode = "monthly" => Cardinality(DaysIn(ret)) = 30
           /\ arg.mode = "backfill" => Cardinality(DaysIn(ret)) = arg.backfill_days
    /\ pc = "raised" =>
           /\ arg.mode \notin {"daily", "weekly", "monthly", "backfill"}
           /\ error.type = "ValueError"

C24_Witness ==
    /\ pc = "returned"
    /\ arg.mode = "backfill"
    /\ arg.backfill_days = 3
    /\ arg.today = <<2024, 3, 2>>
    /\ ret = << <<2024, 2, 28>>, <<2024, 3, 1>> >>

----------------------------------------------------------------------------
(* The ranges of a call that returned *)

\* the job of a log entry got a finished status: it ended in the download, in
\* the extraction, for want of a file URL, or well
ReachedFinished(entry) ==
    entry.outcome \in {"ok", "NoFileUrl", "Unavailable", "BadZipFile"}

\* the job of a log entry was downloaded and extracted
Completed(entry) == entry.outcome = "ok"

\* the known groups the list names once
KnownOnce ==
    { g \in {Groups[i] : i \in 1..Len(Groups) \ UnknownAt} :
        Cardinality({i \in 1..Len(Groups) : Groups[i] = g}) = 1 }

Partitions(group, Counted(_)) ==
    LET jobs == {j \in 1..Len(log) : log[j].group = group /\ Counted(log[j])}
        from == strptime(cfg.start_date)
        to   == strptime(cfg.end_date)
    IN  /\ \A j \in jobs : from <= strptime(log[j].s) /\ strptime(log[j].e) <= to
        /\ \A d \in from..to :
               Cardinality({j \in jobs : strptime(log[j].s) <= d /\ d <= strptime(log[j].e)}) = 1

\* C25 (as the code has it): whenever bulk_backfill_awards returns without
\* raising, for every known group named once the ranges of the jobs that were
\* downloaded and extracted partition the requested range: every day of it lies
\* in exactly one such range and no such range reaches outside it.
C25_CompletedPartition ==
    pc = "done" => \A g \in KnownOnce : Partitions(g, Completed)

\* C25 as stated: the same of the jobs that reached FINISHED.
C25_FinishedPartition ==
    pc = "done" => \A g \in KnownOnce : Partitions(g, ReachedFinished)

C25_Witness ==
    /\ pc = "done"
    /\ Len(log) = 3
    /\ log[1].outcome \in {"Unavailable", "NoFileUrl"}
    /\ Completed(log[2]) /\ Completed(log[3])

----------------------------------------------------------------------------
(* The run with a --min-split-days below one (main, lines 618-619, takes any
   integer) against a backend on which every job fails *)

\* how far below one min_split_days goes
MaxBelow == 2

LowConfigs ==
    { [start_date |-> s, end_date |-> PlusDays(s, d - 1),
       min_split_days |-> 1 - b, award_types |-> <<"contracts">>] :
        s \in StartDates, d \in 1..MaxDays, b \in 1..MaxBelow }

InitNoFloor == \E c \in LowConfigs : InitWith(c, "failing")

SpecNoFloor == InitNoFloor /\ [][NextAllFail]_vars

\* C26: every split makes progress, whatever integer min_split_days is: each
\* range attempted after a split is non-empty and strictly shorter than the
\* failed range it was split from, and no range is submitted twice for the
\* same group.
C26_SplitsMakeProgress ==
    /\ \A k \in 2..Len(stack) :
           /\ strptime(stack[k].s) <= strptime(stack[k].e)
           /\ _days_between(stack[k].s, stack[k].e)
                  < _days_between(stack[k - 1].s, stack[k - 1].e)
    /\ \A i, j \in 1..Len(log) :
           (i < j /\ log[i].group = log[j].group)
               => <<log[i].s, log[i].e>> # <<log[j].s, log[j].e>>

----------------------------------------------------------------------------
(* The run over several known groups *)

SeveralGroups == { <<"contracts", "grants">>, <<"grants", "widgets", "loans">> }

GroupConfigs ==
    { [start_date |-> s, end_date |-> PlusDays(s, d - 1),
       min_split_days |-> m, award_types |-> g] :
        s \in StartDates, d \in 1..MaxMinSplit + 1, m \in 1..MaxMinSplit,
        g \in SeveralGroups }

InitGroups ==
    \E c \in GroupConfigs : InitWith(c, "flaky") \/ InitWith(c, "failing")

SpecGroups == InitGroups /\ [][Next]_vars

\* the place of a group in the list given
PlaceOf(group) ==
    CHOOSE i \in 1..Len(cfg.award_types) : cfg.award_types[i] = group

\* the job of a log entry failed on a range the driver does not split
FailedUnsplit(entry) ==
    /\ entry.outcome \in RuntimeErrors
    /\ _days_between(entry.s, entry.e) <= cfg.min_split_days

\* C27: bulk_backfill_awards takes the groups in the order given and runs one
\* job at a time, and a failure that leaves a group's range (a failed job on
\* a range of at most min_split_days days) ends the whole call: no job is
\* submitted for a later group.
C27_GroupsInOrderFailureEnds ==
    /\ \A i, j \in 1..Len(log) :
           i < j => PlaceOf(log[i].group) <= PlaceOf(log[j].group)
    /\ \A i \in 1..(Len(log) - 1) : log[i].outcome # "pending"
    /\ \A i, j \in 1..Len(log) :
           FailedUnsplit(log[i]) => PlaceOf(log[j].group) <= PlaceOf(log[i].group)
    /\ (log # <<>> /\ FailedUnsplit(Last)) => pc \in {"except", "raised"}
    /\ pc = "raised" => stack = <<>>

C27_Witness ==
    /\ pc = "raised"
    /\ cfg.award_types = <<"contracts", "grants">>
    /\ Len(log) >= 2
    /\ FailedUnsplit(Last)
    /\ \A i \in 1..Len(log) : log[i].group = "contracts"

----------------------------------------------------------------------------
(* shard_iter with a --chunk-days below one (main, line 629, takes any
   integer). The loop is followed until it has yielded MaxYielded tuples. *)

MaxYielded == 6

LowShardInputs ==
    { [start_date |-> r[1], end_date |-> r[2], groups |-> l[1], agencies |-> l[2],
       chunk_days |-> 1 - b] :
        r \in ShardRanges, l \in ShardLists, b \in 1..MaxBelow }

InitShardLow ==
    /\ DrvIdle
    /\ AuxIdle
    /\ backend = "none"
    /\ error = NoError
    /\ arg \in LowShardInputs
    /\ ret = <<>>
    /\ pc = "call"

NextShardLow == ShardStart \/ (ShardWindow /\ Len(ret) < MaxYielded)

SpecShardLow == InitShardLow /\ [][NextShardLow]_vars

\* C28: for every range with start <= end and every integer chunk_days,
\* shard_iter ends after finitely many shards, at most one window per day of
\* the range, and every window it yields has shard_start <= shard_end.
C28_ShardsFiniteAndOrdered ==
    /\ \A k \in 1..Len(ret) : strptime(ret[k][2]) <= strptime(ret[k][3])
    /\ Cardinality({ <<ret[k][2], ret[k][3]>> : k \in 1..Len(ret) })
           <= _days_between(arg.start_date, arg.end_date)
    /\ pc = "while" => locals.current >= strptime(arg.start_date)

----------------------------------------------------------------------------
(* ProductionETLOrchestrator.run_pipeline (usaspending_production_etl.py,
   lines 402-444). arg is the configuration, locals is self.results, wire the
   e-mails sent (the status their subject and body show), dest the results
   files written, ret the value returned. A step ends as its last log_step
   says, or raises past its own handler. *)

StepNames == {"data_download", "data_processing", "analysis", "cleanup", "email_report"}

PipelineConfigs ==
    [download_enabled : BOOLEAN, analysis_enabled : BOOLEAN,
     cleanup_enabled : BOOLEAN, email_enabled : BOOLEAN]

\* __init__, lines 81-88
NewResults ==
    [status |-> "RUNNING", end_time |-> FALSE,
     steps |-> [s \in StepNames |-> "NONE"]]

\* how a step that can be disabled may end
StepOutcomes(enabled) ==
    IF enabled THEN {"SUCCESS", "FAILED", "raise"} ELSE {"SKIPPED"}

\* log_step, lines 100-113; a step that raises leaves its STARTED entry
log_step(results, step_name, outcome) ==
    [results EXCEPT !.steps[step_name] = IF outcome = "raise" THEN "STARTED" ELSE outcome]

Failed_unset(results) == results
\* self.results['status'] = 'FAILED', lines 409, 415 and 434
Failed(results) == [results EXCEPT !.status = "FAILED"]

InitPipeline ==
    /\ DrvIdle
    /\ backend = "none"
    /\ error = NoError
    /\ arg \in PipelineConfigs
    /\ locals = NewResults
    /\ wire = <<>>
    /\ dest = <<>>
    /\ ret = FALSE
    /\ now = 0
    /\ limiter = NoLimiter
    /\ sent = NoSent
    /\ pc = "run_data_download"

\* lines 407-410
run_data_download ==
    /\ pc = "run_data_download"
    /\ \E o \in StepOutcomes(arg.download_enabled) :
        LET logged == log_step(locals, "data_download", o)
        IN  CASE o = "raise" ->
                  /\ locals' = logged
                  /\ pc' = "except"
                  /\ UNCHANGED ret
              [] o = "FAILED" ->
                  /\ locals' = Failed(logged)
                  /\ ret' = FALSE
                  /\ pc' = "finally"
              [] OTHER ->
                  /\ locals' = logged
                  /\ pc' = "run_data_processing"
                  /\ UNCHANGED ret
    /\ UNCHANGED <<backend, error, arg, wire, dest, now, limiter, sent>>
    /\ UNCHANGED drv

\* lines 412-416
run_data_processing ==
    /\ pc = "run_data_processing"
    /\ \E o \in StepOutcomes(TRUE) :
        LET logged == log_step(locals, "data_processing", o)
        IN  CASE o = "raise" ->
                  /\ locals' = logged
                  /\ pc' = "except"
                  /\ UNCHANGED ret
              [] o = "FAILED" ->
                  /\ locals' = Failed(logged)
                  /\ ret' = FALSE
                  /\ pc' = "finally"
              [] OTHER ->
                  /\ locals' = logged
                  /\ pc' = "run_analysis"
                  /\ UNCHANGED ret
    /\ UNCHANGED <<backend, error, arg, wire, dest, now, limiter, sent>>
    /\ UNCHANGED drv

\* line 419: the value returned is not looked at
run_analysis ==
    /\ pc = "run_analysis"
    /\ \E o \in StepOutcomes(arg.analysis_enabled) :
        /\ locals' = log_step(locals, "analysis", o)
        /\ pc' = IF o = "raise" THEN "except" ELSE "run_cleanup"
    /\ UNCHANGED <<backend, error, arg, ret, wire, dest, now, limiter, sent>>
    /\ UNCHANGED drv

\* line 422: the value returned is not looked at
run_cleanup ==
    /\ pc = "run_cleanup"
    /\ \E o \in StepOutcomes(arg.cleanup_enabled) :
        /\ locals' = log_step(locals, "cleanup", o)
        /\ pc' = IF o = "raise" THEN "except" ELSE "send_email_report"
    /\ UNCHANGED <<backend, error, arg, ret, wire, dest, now, limiter, sent>>
    /\ UNCHANGED drv

\* lines 322, 325 and 362-366: the subject and the body are made of results['status'] as
\* it is when send_email_report runs
Mail(results) == [subject |-> results.status, body |-> results.status]

\* line 425, send_email_report lines 309-358: nothing is sent or logged with
\* e-mail disabled; else the message goes out or the step fails before or
\* after server.send_message
send_email_report ==
    /\ pc = "send_email_report"
    /\ IF ~arg.email_enabled
       THEN /\ pc' = "success"
            /\ UNCHANGED <<locals, wire>>
       ELSE \E o \in StepOutcomes(TRUE), delivered \in BOOLEAN :
            /\ o = "SUCCESS" => delivered
            /\ locals' = log_step(locals, "email_report", o)
            /\ wire' = IF delivered THEN Append(wire, Mail(locals)) ELSE wire
            /\ pc' = IF o = "raise" THEN "except" ELSE "success"
    /\ UNCHANGED <<backend, error, arg, ret, dest, now, limiter, sent>>
    /\ UNCHANGED drv

\* lines 427-431; the logging of line 430 may raise
PipelineSuccess ==
    /\ pc = "success"
    /\ locals' = [locals EXCEPT !.status = "SUCCESS", !.end_time = TRUE]
    /\ \/ pc' = "finally" /\ ret' = TRUE
       \/ pc' = "except" /\ UNCHANGED ret
    /\ UNCHANGED <<backend, error, arg, wire, dest, now, limiter, sent>>
    /\ UNCHANGED drv

\* lines 433-439
PipelineExcept ==
    /\ pc = "except"
    /\ locals' = [Failed(locals) EXCEPT !.end_time = TRUE]
    /\ ret' = FALSE
    /\ pc' = "finally"
    /\ UNCHANGED <<backend, error, arg, wire, dest, now, limiter, sent>>
    /\ UNCHANGED drv

\* the finally clause, lines 441-444, and save_run_results, lines 390-400
save_run_results ==
    /\ pc = "finally"
    /\ dest' = Append(dest, locals)
    /\ pc' = "returned"
    /\ UNCHANGED <<backend, error, arg, ret, locals, wire, now, limiter, sent>>
    /\ UNCHANGED drv

NextPipeline ==
    \/ run_data_download
    \/ run_data_processing
    \/ run_analysis
    \/ run_cleanup
    \/ send_email_report
    \/ PipelineSuccess
    \/ PipelineExcept
    \/ save_run_results

SpecPipeline == InitPipeline /\ [][NextPipeline]_vars

\* a step that returned what run_pipeline takes for success
ReturnedSuccess(step_name) == locals.steps[step_name] \in {"SUCCESS", "SKIPPED"}

\* C29: on every path through run_pipeline the run results are saved exactly
\* once, after the status was set, with status SUCCESS or FAILED and never
\* RUNNING; processing does not start unless the download returned success;
\* and the value returned is true exactly when the saved status is SUCCESS.
C29_SavedOnceWithFinalStatus ==
    /\ Len(dest) = IF pc = "returned" THEN 1 ELSE 0
    /\ \A k \in 1..Len(dest) : dest[k].status \in {"SUCCESS", "FAILED"}
    /\ (pc = "run_data_processing" \/ locals.steps["data_processing"] # "NONE")
           => ReturnedSuccess("data_download")
    /\ pc = "returned" => (ret <=> dest[1].status = "SUCCESS")

C29_Witness ==
    /\ pc = "returned"
    /\ dest[1].status = "FAILED"
    /\ locals.steps["cleanup"] = "STARTED"
    /\ ~ret

\* C30: an e-mail report sent during run_pipeline shows, in its subject and in
\* its body, the final status of the run, the one saved afterwards (SUCCESS or
\* FAILED), never the initial RUNNING.
C30_MailShowsFinalStatus ==
    \A k \in 1..Len(wire) :
        /\ wire[k].subject \in {"SUCCESS", "FAILED"}
        /\ wire[k].body \in {"SUCCESS", "FAILED"}
        /\ pc = "returned" => (wire[k].subject = dest[1].status /\ wire[k].body = dest[1].status)

====
